---------------------------- MODULE Spec2Model ----------------------------
(***************************************************************************)
(* Conversational-memory store (mcp-ts): the Record Store tables           *)
(* (sessions, conversations, conversations_summary), the ingestion routes  *)
(* of /api/chat and /api/sessions, and the semantic search of              *)
(* ConversationSummaryService with its two caller-facing entry points.     *)
(*                                                                         *)
(* Every route handler is an async function: it runs atomically between    *)
(* two awaits, and every await of a service call is one SQL statement,     *)
(* which the database executes atomically.  One action of the model is one *)
(* such segment of a handler.                                              *)
(***************************************************************************)
EXTENDS Integers, Sequences, FiniteSets, TLC

VARIABLES
    sessions,       \* table "sessions": set of rows
    conversations,  \* table "conversations": set of rows
    nextSessionPk,  \* sessions.id autoIncrement
    nextConvPk,     \* conversations.id autoIncrement
    nextUuid,       \* number of uuidv4() values drawn so far
    pc,             \* per client: position in the handler it is running
    req,            \* per client: the request body / params being served
    session,        \* per client: the handler's local `session`
    resp,           \* per client: the response sent
    nreq,           \* number of requests issued so far
    summaries,      \* table "conversations_summary": set of rows
    nextSummaryPk,  \* conversations_summary.id autoIncrement
    clock,          \* NOW() of the database, in ticks
    last,           \* the latest semantic search call and its response
    prev,           \* the call before it, when comparable (see Remember)
    scored,         \* generateRecommendation: the `results` it is called with
    recommendation, \* generateRecommendation: the string it returned
    transports,     \* startServer: the Map from client id to transport
    open,           \* the SSE connections that are open
    nextConn,       \* number of SSE connections accepted so far, plus one
    now,            \* Date.now(), in milliseconds
    answer          \* the latest response of POST /messages/:clientId

ingestVars == <<sessions, conversations, nextSessionPk, nextConvPk, nextUuid,
                pc, req, session, resp, nreq>>
searchVars == <<summaries, nextSummaryPk, clock, last, prev>>
pureVars == <<scored, recommendation>>
sseVars == <<transports, open, nextConn, now, answer>>
vars == <<sessions, conversations, nextSessionPk, nextConvPk, nextUuid,
          pc, req, session, resp, nreq,
          summaries, nextSummaryPk, clock, last, prev,
          scored, recommendation,
          transports, open, nextConn, now, answer>>

-----------------------------------------------------------------------------
(* Bounds of the model *)

\* requests issued in one run
MaxReqs == 2
\* messages in one batch request
MaxBatch == 2

\* rows ever inserted into conversations by the /api/conversations routes
MaxTurns == 2

\* Summaries created in a run that follows their Turns
MaxReferring == 1

\* SSE connections accepted in one run
MaxConns == 3
\* milliseconds that pass in one run
MaxNow == 1

\* concurrent HTTP clients
Clients == {"c1", "c2"}

\* rows of table "users" (the model has no user operation)
UserIds == {7, 8}
\* session keys of the requests
SessionKeys == {"abc", "xyz"}

\* bodies of POST /api/chat/message: the well-formed ones, and one body per
\* validation branch (0 and "" stand for a missing / falsy field)
MessageBodies ==
    {[user_id |-> u, session_id |-> k, content |-> "hi", role |-> "user"] :
        u \in UserIds, k \in SessionKeys}
    \cup {[user_id |-> 0, session_id |-> "abc", content |-> "hi", role |-> "user"],
          [user_id |-> 7, session_id |-> "", content |-> "hi", role |-> "user"],
          [user_id |-> 7, session_id |-> "abc", content |-> "", role |-> "user"],
          [user_id |-> 7, session_id |-> "abc", content |-> "hi", role |-> ""],
          [user_id |-> 7, session_id |-> "abc", content |-> "hi", role |-> "robot"]}

\* message lists of a batch body, up to MaxBatch long: the route checks neither
\* content nor role, so a list may hold a message the table rejects (at bad)
BatchMsg(i, bad) ==
    IF i = bad THEN [content |-> "yo", role |-> "robot"]
    ELSE [content |-> "hi", role |-> "user"]

BatchLists ==
    {[i \in 1..n |-> BatchMsg(i, bad)] : n \in 0..MaxBatch, bad \in 0..MaxBatch}

\* bodies of POST /api/chat/messages/batch (isArray FALSE: messages is missing
\* or not an array)
BatchBodies ==
    {[user_id |-> u, session_id |-> k, isArray |-> TRUE, messages |-> m] :
        u \in UserIds, k \in SessionKeys,
        m \in BatchLists}
    \cup {[user_id |-> 0, session_id |-> "abc", isArray |-> TRUE, messages |-> <<>>],
          [user_id |-> 7, session_id |-> "", isArray |-> TRUE, messages |-> <<>>],
          [user_id |-> 7, session_id |-> "abc", isArray |-> FALSE, messages |-> <<>>]}

\* bodies of POST /api/sessions
SessionBodies ==
    {[user_id |-> u, session_id |-> k, title |-> "chat"] :
        u \in UserIds, k \in SessionKeys}
    \cup {[user_id |-> 0, session_id |-> "abc", title |-> "chat"],
          [user_id |-> 7, session_id |-> "", title |-> "chat"],
          [user_id |-> 7, session_id |-> "abc", title |-> "null"]}

\* rows ever inserted into conversations_summary in one run
MaxSummaries == 3

\* the configured embedding dimension: VECTOR(1536) in the source, scaled down
\* so that the vectors can be enumerated
EmbeddingDim == 2

\* result cap of the search tool: Math.min(Math.max(1, limit), 20)
MaxToolLimit == 20

\* embedding vectors, as functions of the dimension
UnitFirst == [i \in 1..EmbeddingDim |-> IF i = 1 THEN 1 ELSE 0]
AllOnes == [i \in 1..EmbeddingDim |-> 1]
NegFirst == [i \in 1..EmbeddingDim |-> IF i = 1 THEN -1 ELSE 0]
TooShort == [i \in 1..(EmbeddingDim - 1) |-> 1]
TooLong == [i \in 1..(EmbeddingDim + 1) |-> 1]

\* a column or a body field holding no vector (SQL NULL, undefined)
NoEmbedding == <<>>

\* vectors a caller sends as an embedding to store: any length
BodyEmbeddings == {UnitFirst, AllOnes, NegFirst, TooShort, TooLong, <<>>}

\* limit values of a search request
LimitInputs == {-1, 0, 1, 2, 25}
\* similarity thresholds of a search request, in hundredths
ThresholdInputs == {-80, 70, 71, 150}

\* bodies of a semantic search request: the well-formed ones, and one body
\* per kind of bad query embedding (given FALSE: the field is missing)
SearchInputs ==
    {[given |-> TRUE, vec |-> v, limit |-> n, threshold |-> t] :
        v \in {UnitFirst, AllOnes}, n \in LimitInputs, t \in ThresholdInputs}
    \cup {[given |-> TRUE, vec |-> v, limit |-> 2, threshold |-> 70] :
            v \in {TooShort, TooLong, <<>>}}
    \cup {[given |-> FALSE, vec |-> <<>>, limit |-> 2, threshold |-> 70]}

Null == "null"
\* the handler's `session` when findOne returned null
NoSession == [id |-> 0]
NoReq == [op |-> "none"]
NoResp == [status |-> 0, error |-> "none"]
\* `last` and `prev` when there is no response on the store as it is
NoCall == [entry |-> "none"]

-----------------------------------------------------------------------------
(* Table definitions *)

ConversationRoles == {"user", "assistant", "system"}

\* variant: the sessions table without the unique index on session_id
SessionIdNotChecked(key) == TRUE

\* sessions.session_id: unique: true, and the unique index on it
SessionIdUnique(key) == \A s \in sessions : s.session_id # key

\* sessions.user_id / conversations.user_id references users(id)
UserExists(u) == u \in UserIds

\* conversations.session_id references sessions(session_id)
SessionExists(key) == \E s \in sessions : s.session_id = key

\* variant: the foreign key without ON DELETE CASCADE action
NoCascade(key) == conversations

\* conversations.session_id onDelete: "CASCADE": the rows left in conversations
\* when the sessions row of `key` is deleted
OnDeleteCascade(key) == {t \in conversations : t.session_id # key}

\* conversations.role: ENUM("user", "assistant", "system")
RoleInEnum(r) == r \in ConversationRoles

-----------------------------------------------------------------------------
(* Services *)

\* SessionService.findBySessionId: Session.findOne({ where: { session_id } })
FindBySessionId(key) ==
    IF \E s \in sessions : s.session_id = key
    THEN CHOOSE s \in sessions : s.session_id = key
    ELSE NoSession

\* SessionService.create: Session.create(data); the error the INSERT raises,
\* "none" when the row is inserted
SessionCreateError(data) ==
    IF ~UserExists(data.user_id) THEN "SequelizeForeignKeyConstraintError"
    ELSE IF ~SessionIdUnique(data.session_id) THEN "SequelizeUniqueConstraintError"
    ELSE "none"

\* variant: a Session row that gets a title whatever the data holds
SessionRowTitled(data) ==
    [id |-> nextSessionPk, session_id |-> data.session_id,
     user_id |-> data.user_id, title |-> "chat"]

SessionRow(data) ==
    [id |-> nextSessionPk, session_id |-> data.session_id,
     user_id |-> data.user_id, title |-> data.title]

\* variant: conversations.session_id without its reference to sessions
ConversationInsertErrorNoSessionKey(datas) ==
    IF \E i \in 1..Len(datas) : ~RoleInEnum(datas[i].role)
    THEN "SequelizeDatabaseError"
    ELSE IF \E i \in 1..Len(datas) : ~UserExists(datas[i].user_id)
    THEN "SequelizeForeignKeyConstraintError"
    ELSE "none"

\* ConversationService.create / createBatch (one INSERT statement): the error
\* the INSERT raises for the rows `datas`, "none" when all rows are inserted.
\* The rows of one statement get one created_at, the time of the statement.
ConversationInsertError(datas) ==
    IF \E i \in 1..Len(datas) : ~RoleInEnum(datas[i].role)
    THEN "SequelizeDatabaseError"
    ELSE IF \E i \in 1..Len(datas) :
                ~UserExists(datas[i].user_id) \/ ~SessionExists(datas[i].session_id)
    THEN "SequelizeForeignKeyConstraintError"
    ELSE "none"

ConversationRows(datas) ==
    {[id |-> nextConvPk + i - 1,
      conversation_id |-> datas[i].conversation_id,
      session_id |-> datas[i].session_id,
      user_id |-> datas[i].user_id,
      role |-> datas[i].role,
      content |-> datas[i].content,
      created_at |-> clock + 1] : i \in 1..Len(datas)}

-----------------------------------------------------------------------------
(* Handlers of the ingestion path *)

Idle(c) == pc[c] \in {"idle", "done"} /\ nreq < MaxReqs

Respond(c, status, error) ==
    /\ resp' = [resp EXCEPT ![c] = [status |-> status, error |-> error]]
    /\ pc' = [pc EXCEPT ![c] = "done"]

Accept(c, body) ==
    /\ req' = [req EXCEPT ![c] = body]
    /\ nreq' = nreq + 1
    /\ session' = [session EXCEPT ![c] = NoSession]

\* POST /api/chat/message: destructuring and validation
ChatMessageBegin(c) ==
    /\ Idle(c)
    /\ \E b \in MessageBodies :
        /\ Accept(c, [op |-> "message", user_id |-> b.user_id,
                      session_id |-> b.session_id, content |-> b.content,
                      role |-> b.role, conversation_id |-> 0])
        /\ IF b.user_id = 0 \/ b.session_id = "" \/ b.content = "" \/ b.role = ""
           THEN Respond(c, 400, "required")
           ELSE IF b.role \notin {"user", "assistant", "system"}
           THEN Respond(c, 400, "role")
           ELSE /\ pc' = [pc EXCEPT ![c] = "message_find"]
                /\ resp' = [resp EXCEPT ![c] = NoResp]
    /\ UNCHANGED <<sessions, conversations, nextSessionPk, nextConvPk, nextUuid>>
    /\ UNCHANGED <<searchVars, pureVars, sseVars>>

\* let session = await sessionService.findBySessionId(session_id)
ChatMessageFind(c) ==
    /\ pc[c] = "message_find"
    /\ session' = [session EXCEPT ![c] = FindBySessionId(req[c].session_id)]
    /\ pc' = [pc EXCEPT ![c] =
                IF FindBySessionId(req[c].session_id) = NoSession
                THEN "message_create_session" ELSE "message_create"]
    /\ UNCHANGED <<sessions, conversations, nextSessionPk, nextConvPk, nextUuid,
                   req, resp, nreq>>
    /\ UNCHANGED <<searchVars, pureVars, sseVars>>

\* if (!session) session = await sessionService.create({...})
ChatMessageCreateSession(c) ==
    /\ pc[c] = "message_create_session"
    /\ LET data == [user_id |-> req[c].user_id, session_id |-> req[c].session_id,
                    title |-> Null]
       IN IF SessionCreateError(data) = "none"
          THEN /\ sessions' = sessions \cup {SessionRow(data)}
               /\ nextSessionPk' = nextSessionPk + 1
               /\ session' = [session EXCEPT ![c] = SessionRow(data)]
               /\ pc' = [pc EXCEPT ![c] = "message_create"]
               /\ UNCHANGED resp
          ELSE /\ Respond(c, 500, SessionCreateError(data))
               /\ UNCHANGED <<sessions, nextSessionPk, session>>
    /\ UNCHANGED <<conversations, nextConvPk, nextUuid, req, nreq>>
    /\ UNCHANGED <<searchVars, pureVars, sseVars>>

\* const conversation = await conversationService.create({... uuidv4() ...})
ChatMessageCreate(c) ==
    /\ pc[c] = "message_create"
    /\ LET data == [user_id |-> req[c].user_id, session_id |-> req[c].session_id,
                    conversation_id |-> nextUuid + 1,
                    content |-> req[c].content, role |-> req[c].role]
       IN /\ nextUuid' = nextUuid + 1
          /\ req' = [req EXCEPT ![c].conversation_id = nextUuid + 1]
          /\ IF ConversationInsertError(<<data>>) = "none"
             THEN /\ conversations' = conversations \cup ConversationRows(<<data>>)
                  /\ nextConvPk' = nextConvPk + 1
                  /\ clock' = clock + 1
                  /\ Respond(c, 201, "none")
             ELSE /\ Respond(c, 500, ConversationInsertError(<<data>>))
                  /\ UNCHANGED <<conversations, nextConvPk, clock>>
    /\ UNCHANGED <<sessions, nextSessionPk, session, nreq>>
    /\ UNCHANGED <<summaries, nextSummaryPk, last, prev, pureVars, sseVars>>

\* POST /api/chat/messages/batch: destructuring and validation
ChatBatchBegin(c) ==
    /\ Idle(c)
    /\ \E b \in BatchBodies :
        /\ Accept(c, [op |-> "batch", user_id |-> b.user_id,
                      session_id |-> b.session_id, isArray |-> b.isArray,
                      messages |-> b.messages, conversation_id |-> 0])
        /\ IF b.user_id = 0 \/ b.session_id = "" \/ ~b.isArray
           THEN Respond(c, 400, "required")
           ELSE /\ pc' = [pc EXCEPT ![c] = "batch_find"]
                /\ resp' = [resp EXCEPT ![c] = NoResp]
    /\ UNCHANGED <<sessions, conversations, nextSessionPk, nextConvPk, nextUuid>>
    /\ UNCHANGED <<searchVars, pureVars, sseVars>>

\* let session = await sessionService.findBySessionId(session_id)
ChatBatchFind(c) ==
    /\ pc[c] = "batch_find"
    /\ session' = [session EXCEPT ![c] = FindBySessionId(req[c].session_id)]
    /\ pc' = [pc EXCEPT ![c] =
                IF FindBySessionId(req[c].session_id) = NoSession
                THEN "batch_create_session" ELSE "batch_create"]
    /\ UNCHANGED <<sessions, conversations, nextSessionPk, nextConvPk, nextUuid,
                   req, resp, nreq>>
    /\ UNCHANGED <<searchVars, pureVars, sseVars>>

\* if (!session) session = await sessionService.create({...})
ChatBatchCreateSession(c) ==
    /\ pc[c] = "batch_create_session"
    /\ LET data == [user_id |-> req[c].user_id, session_id |-> req[c].session_id,
                    title |-> Null]
       IN IF SessionCreateError(data) = "none"
          THEN /\ sessions' = sessions \cup {SessionRow(data)}
               /\ nextSessionPk' = nextSessionPk + 1
               /\ session' = [session EXCEPT ![c] = SessionRow(data)]
               /\ pc' = [pc EXCEPT ![c] = "batch_create"]
               /\ UNCHANGED resp
          ELSE /\ Respond(c, 500, SessionCreateError(data))
               /\ UNCHANGED <<sessions, nextSessionPk, session>>
    /\ UNCHANGED <<conversations, nextConvPk, nextUuid, req, nreq>>
    /\ UNCHANGED <<searchVars, pureVars, sseVars>>

\* variant: createBatch inserting the rows one INSERT at a time, up to the
\* first row that is rejected
ChatBatchCreateRowByRow(c) ==
    /\ pc[c] = "batch_create"
    /\ LET n == Len(req[c].messages)
           datas == [i \in 1..n |->
                        [user_id |-> req[c].user_id, session_id |-> req[c].session_id,
                         conversation_id |-> nextUuid + i,
                         content |-> req[c].messages[i].content,
                         role |-> req[c].messages[i].role]]
           k == Cardinality({i \in 1..n :
                    \A j \in 1..i : ConversationInsertError(<<datas[j]>>) = "none"})
       IN /\ nextUuid' = nextUuid + n
          /\ req' = [req EXCEPT ![c].conversation_id = nextUuid + 1]
          /\ conversations' = conversations \cup ConversationRows(SubSeq(datas, 1, k))
          /\ nextConvPk' = nextConvPk + k
          /\ clock' = IF k = 0 THEN clock ELSE clock + 1
          /\ IF k = n THEN Respond(c, 201, "none")
             ELSE Respond(c, 500, ConversationInsertError(datas))
    /\ UNCHANGED <<sessions, nextSessionPk, session, nreq>>
    /\ UNCHANGED <<summaries, nextSummaryPk, last, prev, pureVars, sseVars>>

\* messages.map(...uuidv4()...) and await conversationService.createBatch(...):
\* createBatch returns [] for an empty list, else one bulkCreate INSERT
ChatBatchCreate(c) ==
    /\ pc[c] = "batch_create"
    /\ LET n == Len(req[c].messages)
           datas == [i \in 1..n |->
                        [user_id |-> req[c].user_id, session_id |-> req[c].session_id,
                         conversation_id |-> nextUuid + i,
                         content |-> req[c].messages[i].content,
                         role |-> req[c].messages[i].role]]
       IN /\ nextUuid' = nextUuid + n
          /\ req' = [req EXCEPT ![c].conversation_id = nextUuid + 1]
          /\ IF n = 0 \/ ConversationInsertError(datas) = "none"
             THEN /\ conversations' = conversations \cup ConversationRows(datas)
                  /\ nextConvPk' = nextConvPk + n
                  /\ clock' = IF n = 0 THEN clock ELSE clock + 1
                  /\ Respond(c, 201, "none")
             ELSE /\ Respond(c, 500, ConversationInsertError(datas))
                  /\ UNCHANGED <<conversations, nextConvPk, clock>>
    /\ UNCHANGED <<sessions, nextSessionPk, session, nreq>>
    /\ UNCHANGED <<summaries, nextSummaryPk, last, prev, pureVars, sseVars>>

\* POST /api/sessions: destructuring and validation
SessionsPostBegin(c) ==
    /\ Idle(c)
    /\ \E b \in SessionBodies :
        /\ Accept(c, [op |-> "session", user_id |-> b.user_id,
                      session_id |-> b.session_id, title |-> b.title])
        /\ IF b.user_id = 0 \/ b.session_id = ""
           THEN Respond(c, 400, "required")
           ELSE /\ pc' = [pc EXCEPT ![c] = "session_exists"]
                /\ resp' = [resp EXCEPT ![c] = NoResp]
    /\ UNCHANGED <<sessions, conversations, nextSessionPk, nextConvPk, nextUuid>>
    /\ UNCHANGED <<searchVars, pureVars, sseVars>>

\* if (await sessionService.sessionIdExists(session_id)) return 409
SessionsPostExists(c) ==
    /\ pc[c] = "session_exists"
    /\ IF FindBySessionId(req[c].session_id) # NoSession
       THEN Respond(c, 409, "exists")
       ELSE /\ pc' = [pc EXCEPT ![c] = "session_create"]
            /\ UNCHANGED resp
    /\ UNCHANGED <<sessions, conversations, nextSessionPk, nextConvPk, nextUuid,
                   req, session, nreq>>
    /\ UNCHANGED <<searchVars, pureVars, sseVars>>

\* const session = await sessionService.create({ title, user_id, session_id })
SessionsPostCreate(c) ==
    /\ pc[c] = "session_create"
    /\ LET data == [user_id |-> req[c].user_id, session_id |-> req[c].session_id,
                    title |-> req[c].title]
       IN IF SessionCreateError(data) = "none"
          THEN /\ sessions' = sessions \cup {SessionRow(data)}
               /\ nextSessionPk' = nextSessionPk + 1
               /\ session' = [session EXCEPT ![c] = SessionRow(data)]
               /\ Respond(c, 201, "none")
          ELSE /\ Respond(c, 500, SessionCreateError(data))
               /\ UNCHANGED <<sessions, nextSessionPk, session>>
    /\ UNCHANGED <<conversations, nextConvPk, nextUuid, req, nreq>>
    /\ UNCHANGED <<searchVars, pureVars, sseVars>>

\* DELETE /api/chat/session/:sessionId:
\* const deletedMessages = await conversationService.deleteBySessionId(sessionId)
ChatDeleteBegin(c) ==
    /\ Idle(c)
    /\ \E k \in SessionKeys :
        /\ Accept(c, [op |-> "delete", session_id |-> k])
        /\ conversations' = {t \in conversations : t.session_id # k}
    /\ pc' = [pc EXCEPT ![c] = "delete_session"]
    /\ resp' = [resp EXCEPT ![c] = NoResp]
    /\ last' = NoCall /\ prev' = NoCall
    /\ UNCHANGED <<sessions, nextSessionPk, nextConvPk, nextUuid>>
    /\ UNCHANGED <<summaries, nextSummaryPk, clock, pureVars, sseVars>>

\* const deleted = await sessionService.deleteBySessionId(sessionId):
\* Session.destroy, and conversations.session_id is onDelete: "CASCADE"
ChatDeleteSession(c) ==
    /\ pc[c] = "delete_session"
    /\ sessions' = {s \in sessions : s.session_id # req[c].session_id}
    /\ conversations' = OnDeleteCascade(req[c].session_id)
    /\ IF SessionExists(req[c].session_id)
       THEN Respond(c, 200, "none")
       ELSE Respond(c, 404, "not found")
    /\ last' = NoCall /\ prev' = NoCall
    /\ UNCHANGED <<nextSessionPk, nextConvPk, nextUuid, req, session, nreq>>
    /\ UNCHANGED <<summaries, nextSummaryPk, clock, pureVars, sseVars>>

-----------------------------------------------------------------------------
InitIngest ==
    /\ sessions = {}
    /\ conversations = {}
    /\ nextSessionPk = 1
    /\ nextConvPk = 1
    /\ nextUuid = 0
    /\ pc = [c \in Clients |-> "idle"]
    /\ req = [c \in Clients |-> NoReq]
    /\ session = [c \in Clients |-> NoSession]
    /\ resp = [c \in Clients |-> NoResp]
    /\ nreq = 0

InitSearch ==
    /\ summaries = {}
    /\ nextSummaryPk = 1
    /\ clock = 0
    /\ last = NoCall
    /\ prev = NoCall

InitPure ==
    /\ scored = <<>>
    /\ recommendation = "none"

\* startServer: const transports = new Map()
InitSse ==
    /\ transports = {}
    /\ open = {}
    /\ nextConn = 1
    /\ now = 0
    /\ answer = [status |-> 0]

Init == InitIngest /\ InitSearch /\ InitPure /\ InitSse

Next ==
    \E c \in Clients :
        \/ ChatMessageBegin(c)
        \/ ChatMessageFind(c)
        \/ ChatMessageCreateSession(c)
        \/ ChatMessageCreate(c)
        \/ ChatBatchBegin(c)
        \/ ChatBatchFind(c)
        \/ ChatBatchCreateSession(c)
        \/ ChatBatchCreate(c)
        \/ SessionsPostBegin(c)
        \/ SessionsPostExists(c)
        \/ SessionsPostCreate(c)
        \/ ChatDeleteBegin(c)
        \/ ChatDeleteSession(c)

Spec == Init /\ [][Next]_vars

-----------------------------------------------------------------------------
(* pgvector: cosine distance.  A similarity is kept exact, as the pair       *)
(* (num, den2) standing for num / sqrt(den2); vectors are non-zero.          *)

RECURSIVE DotUpTo(_, _, _)
DotUpTo(a, b, i) == IF i = 0 THEN 0 ELSE DotUpTo(a, b, i - 1) + a[i] * b[i]

\* inner product of two vectors of one length
Dot(a, b) == DotUpTo(a, b, Len(a))

\* 1 - (a <=> b)
Similarity(a, b) == [num |-> Dot(a, b), den2 |-> Dot(a, a) * Dot(b, b)]

\* similarity x <= similarity y
SimLE(x, y) ==
    LET l == x.num * x.num * y.den2
        r == y.num * y.num * x.den2
    IN IF x.num >= 0 /\ y.num >= 0 THEN l <= r
       ELSE IF x.num < 0 /\ y.num < 0 THEN l >= r
       ELSE x.num < 0

\* the threshold t (hundredths) as a similarity
AsSim(t) == [num |-> t, den2 |-> 10000]

(* ConversationSummaryService.semanticSearch: the SELECT statement *)

\* variant: the filter bounds the cosine distance by the threshold
\* (summary_embedding <=> :embedding::vector) <= :threshold
WhereDistance(row, q, t) ==
    /\ row.embedding # NoEmbedding
    /\ SimLE(AsSim(100 - t), Similarity(row.embedding, q))

\* variant: the filter without the threshold
WhereNotNull(row, q, t) == row.embedding # NoEmbedding

\* WHERE summary_embedding IS NOT NULL
\*   AND 1 - (summary_embedding <=> :embedding::vector) >= :threshold
Where(row, q, t) ==
    /\ row.embedding # NoEmbedding
    /\ SimLE(AsSim(t), Similarity(row.embedding, q))

\* SELECT id, summary_text, conversation_ids,
\*        1 - (summary_embedding <=> :embedding::vector) as similarity_score,
\*        created_at
Select(row, q) ==
    [id |-> row.id, summary_text |-> row.summary_text,
     conversation_ids |-> row.conversation_ids,
     similarity_score |-> Similarity(row.embedding, q),
     created_at |-> row.created_at]

Take(o, n) == [i \in 1..(IF n < Len(o) THEN n ELSE Len(o)) |-> o[i]]

\* variant: ORDER BY the similarity, ascending
OrderBySimilarity(x, y) == SimLE(x.similarity_score, y.similarity_score)

\* ORDER BY summary_embedding <=> :embedding::vector : x may precede y.
\* Rows of equal distance come in either order.
OrderBy(x, y) == SimLE(y.similarity_score, x.similarity_score)

\* the lists of all the rows in an order ORDER BY allows: any row that may
\* precede all the others comes first
RECURSIVE Ordered(_)
Ordered(rows) ==
    IF rows = {} THEN {<<>>}
    ELSE UNION {{<<r>> \o o : o \in Ordered(rows \ {r})} :
                    r \in {x \in rows : \A y \in rows : OrderBy(x, y)}}

\* variant: LIMIT applied to the rows before they are ordered
LimitThenOrder(rows, limit) ==
    UNION {Ordered(sub) :
            sub \in {x \in SUBSET rows :
                        Cardinality(x) = (IF limit < Cardinality(rows) THEN limit
                                          ELSE Cardinality(rows))}}

\* ORDER BY ... LIMIT :limit : the result lists the statement may produce
OrderByLimit(rows, limit) == {Take(o, limit) : o \in Ordered(rows)}

\* the error the statement raises, "none" when it returns rows:
\* '[]'::vector is no vector, LIMIT must not be negative, and <=> needs
\* operands of one dimension (it is evaluated on the rows with an embedding)
SearchError(q, limit) ==
    IF Len(q) = 0 THEN "vector must have at least 1 dimension"
    ELSE IF limit < 0 THEN "LIMIT must not be negative"
    ELSE IF \E row \in summaries :
                row.embedding # NoEmbedding /\ Len(row.embedding) # Len(q)
    THEN "different vector dimensions"
    ELSE "none"

\* the result lists semanticSearch(queryEmbedding, limit, similarityThreshold)
\* may return when the statement raises no error
SemanticSearch(q, limit, t) ==
    OrderByLimit({Select(row, q) : row \in {r \in summaries : Where(r, q, t)}}, limit)

-----------------------------------------------------------------------------
(* Summary writes *)

\* summary texts, as tuples of characters; <<>> is a missing or empty text
PlainText == <<"a">>

\* a write stores NOW(): the writes of one run that store a timestamp
MaxClock == 4

\* variant: the column takes any value
EmbeddingErrorNever(e) == "none"

\* variant: the column takes a vector of any length
EmbeddingErrorEmptyOnly(e) ==
    IF Len(e) = 0 THEN "vector must have at least 1 dimension" ELSE "none"

\* the error of storing `e` into summary_embedding VECTOR(dim)
EmbeddingError(e) ==
    IF Len(e) = 0 THEN "vector must have at least 1 dimension"
    ELSE IF Len(e) # EmbeddingDim THEN "expected dimensions"
    ELSE "none"

\* the rows of conversations_summary with primary key id
SummaryById(id) == {row \in summaries : row.id = id}

\* the response of a summary write on row `id` with the vector `e` of its body,
\* and the row as it was before the write
Wrote(op, id, e, status) ==
    /\ last' = [entry |-> op, id |-> id, vector |-> e, status |-> status,
                before |-> SummaryById(id)]
    /\ prev' = NoCall

\* POST /api/conversation-summaries -> ConversationSummaryService.create:
\* the raw INSERT when an embedding of length > 0 is given, else Model.create
SummaryCreateOf(texts, refs, embeddings) ==
    /\ nextSummaryPk <= MaxSummaries
    /\ \E text \in texts, ids \in refs, e \in embeddings :
        IF Len(text) = 0
        THEN /\ Wrote("create", 0, e, 400)
             /\ UNCHANGED <<summaries, nextSummaryPk, clock>>
        ELSE IF Len(e) > 0 /\ EmbeddingError(e) # "none"
        THEN /\ Wrote("create", 0, e, 500)
             /\ UNCHANGED <<summaries, nextSummaryPk, clock>>
        ELSE /\ summaries' = summaries \cup
                    {[id |-> nextSummaryPk, summary_text |-> text,
                      conversation_ids |-> ids, embedding |-> e,
                      created_at |-> clock + 1, updated_at |-> clock + 1]}
             /\ nextSummaryPk' = nextSummaryPk + 1
             /\ clock' = clock + 1
             /\ Wrote("create", nextSummaryPk, e, 201)
    /\ UNCHANGED <<ingestVars, pureVars, sseVars>>

\* ConversationSummaryService.updateEmbedding: UPDATE ... SET summary_embedding
\* = :embedding::vector, updated_at = NOW() WHERE id = :id
UpdateEmbeddingRows(id, e) ==
    {IF row.id = id
     THEN [row EXCEPT !.embedding = e, !.updated_at = clock + 1]
     ELSE row : row \in summaries}

\* PUT /api/conversation-summaries/:id/embedding -> updateEmbedding
SummaryUpdateEmbeddingOf(embeddings) ==
    /\ clock < MaxClock
    /\ \E id \in 1..MaxSummaries, e \in embeddings :
        IF Len(e) = 0
        THEN /\ Wrote("setEmbedding", id, e, 400)
             /\ UNCHANGED <<summaries, clock>>
        ELSE IF SummaryById(id) = {}
        THEN /\ Wrote("setEmbedding", id, e, 404)
             /\ UNCHANGED <<summaries, clock>>
        ELSE IF EmbeddingError(e) # "none"
        THEN /\ Wrote("setEmbedding", id, e, 500)
             /\ UNCHANGED <<summaries, clock>>
        ELSE /\ summaries' = UpdateEmbeddingRows(id, e)
             /\ clock' = clock + 1
             /\ Wrote("setEmbedding", id, e, 200)
    /\ UNCHANGED nextSummaryPk
    /\ UNCHANGED <<ingestVars, pureVars, sseVars>>

\* PUT /api/conversation-summaries/:id -> ConversationSummaryService.update:
\* the raw UPDATE of the embedding when one of length > 0 is given, then
\* Model.update of the other fields, then findById
SummaryUpdateOf(texts, embeddings) ==
    /\ clock < MaxClock
    /\ \E id \in 1..MaxSummaries, text \in texts, e \in embeddings :
        IF SummaryById(id) = {}
        THEN /\ Wrote("update", id, e, 404)
             /\ UNCHANGED <<summaries, clock>>
        ELSE IF Len(e) > 0 /\ EmbeddingError(e) # "none"
        THEN /\ Wrote("update", id, e, 500)
             /\ UNCHANGED <<summaries, clock>>
        ELSE IF Len(e) = 0 /\ Len(text) = 0
        THEN /\ Wrote("update", id, e, 200)
             /\ UNCHANGED <<summaries, clock>>
        ELSE /\ summaries' =
                    {IF row.id = id
                     THEN [row EXCEPT
                            !.embedding = IF Len(e) > 0 THEN e ELSE @,
                            !.summary_text = IF Len(text) > 0 THEN text ELSE @,
                            !.updated_at = clock + 1]
                     ELSE row : row \in summaries}
             /\ clock' = clock + 1
             /\ Wrote("update", id, e, 200)
    /\ UNCHANGED nextSummaryPk
    /\ UNCHANGED <<ingestVars, pureVars, sseVars>>

\* DELETE /api/conversation-summaries/:id
SummaryDelete ==
    /\ \E id \in 1..MaxSummaries :
        /\ summaries' = summaries \ SummaryById(id)
        /\ Wrote("delete", id, <<>>, IF SummaryById(id) = {} THEN 404 ELSE 200)
    /\ UNCHANGED <<nextSummaryPk, clock>>
    /\ UNCHANGED <<ingestVars, pureVars, sseVars>>

\* the summary writes with one text, no referenced turn ids and embeddings of
\* any length
SummaryCreate == SummaryCreateOf({PlainText}, {<<>>}, BodyEmbeddings)

SummaryUpdateEmbedding == SummaryUpdateEmbeddingOf(BodyEmbeddings)

SummaryUpdate == SummaryUpdateOf({<<>>, PlainText}, BodyEmbeddings)

\* the writes of the summary routes on their own
NextEmbedding ==
    \/ SummaryCreate
    \/ SummaryUpdate
    \/ SummaryUpdateEmbedding
    \/ SummaryDelete

EmbeddingSpec == Init /\ [][NextEmbedding]_vars

-----------------------------------------------------------------------------
(* ConversationSummaryService.textSearch and its two entry points *)

\* summary texts of the create bodies, and the search queries
SummaryTexts == {<<"a", "b">>, <<"A">>, <<"b">>, <<>>}
TextQueries == {<<"a">>, <<"B">>, <<"b", "a">>, <<"_">>, <<"%">>, <<>>}
TextLimits == {-1, 1, 2}

\* the lower-case form of a character, as ILIKE compares
Lower(c) == IF c = "A" THEN "a" ELSE IF c = "B" THEN "b" ELSE c

\* text from position i on matches the LIKE pattern from position j on,
\* case-insensitively: % is any sequence of characters, _ any one character
RECURSIVE LikeFrom(_, _, _, _)
LikeFrom(text, i, pattern, j) ==
    IF j > Len(pattern) THEN i > Len(text)
    ELSE IF pattern[j] = "%"
    THEN \E k \in i..(Len(text) + 1) : LikeFrom(text, k, pattern, j + 1)
    ELSE IF i > Len(text) THEN FALSE
    ELSE IF pattern[j] = "_" THEN LikeFrom(text, i + 1, pattern, j + 1)
    ELSE /\ Lower(pattern[j]) = Lower(text[i])
         /\ LikeFrom(text, i + 1, pattern, j + 1)

\* summary_text: { [Op.iLike]: `%${searchQuery}%` }
ILike(text, searchQuery) == LikeFrom(text, 1, <<"%">> \o searchQuery \o <<"%">>, 1)

\* attributes: id, summary_text, conversation_ids, created_at, updated_at
TextAttributes(row) ==
    [id |-> row.id, summary_text |-> row.summary_text,
     conversation_ids |-> row.conversation_ids,
     created_at |-> row.created_at, updated_at |-> row.updated_at]

\* order: [["created_at", "DESC"]] : the lists of the rows in an order it allows
RECURSIVE CreatedAtDesc(_)
CreatedAtDesc(rows) ==
    IF rows = {} THEN {<<>>}
    ELSE UNION {{<<r>> \o o : o \in CreatedAtDesc(rows \ {r})} :
                    r \in {x \in rows : \A y \in rows : x.created_at >= y.created_at}}

\* ConversationSummaryService.textSearch(searchQuery, limit): the lists it may
\* return when the statement raises no error
TextSearch(searchQuery, limit) ==
    {Take(o, limit) :
        o \in CreatedAtDesc({TextAttributes(row) :
                row \in {r \in summaries : ILike(r.summary_text, searchQuery)}})}

\* the response of a text search
TextResponse(entry, searchQuery, limit, accessed, success, rows) ==
    /\ last' = [entry |-> entry, query |-> searchQuery, limit |-> limit,
                accessed |-> accessed, success |-> success, results |-> rows]
    /\ prev' = NoCall

\* await conversationSummaryService.textSearch(searchQuery, limit) inside
\* try/catch; a negative LIMIT is an error of the statement
CallTextSearch(entry, searchQuery, limit) ==
    IF limit < 0 THEN TextResponse(entry, searchQuery, limit, TRUE, FALSE, <<>>)
    ELSE \E rows \in TextSearch(searchQuery, limit) :
            TextResponse(entry, searchQuery, limit, TRUE, TRUE, rows)

\* textSearchConversationSummaries.handler, and router.post("/text-search"):
\* both turn an empty query down and pass limit on as it is
ToolTextSearch ==
    /\ \E searchQuery \in TextQueries, limit \in TextLimits :
        IF Len(searchQuery) = 0
        THEN TextResponse("tool_text", searchQuery, limit, FALSE, FALSE, <<>>)
        ELSE CallTextSearch("tool_text", searchQuery, limit)
    /\ UNCHANGED <<summaries, nextSummaryPk, clock>>
    /\ UNCHANGED <<ingestVars, pureVars, sseVars>>

RestTextSearch ==
    /\ \E query \in TextQueries, limit \in TextLimits :
        IF Len(query) = 0
        THEN TextResponse("rest_text", query, limit, FALSE, FALSE, <<>>)
        ELSE CallTextSearch("rest_text", query, limit)
    /\ UNCHANGED <<summaries, nextSummaryPk, clock>>
    /\ UNCHANGED <<ingestVars, pureVars, sseVars>>

\* the creates of Summaries with the texts, without embedding
SummaryCreateText == SummaryCreateOf(SummaryTexts, {<<>>}, {<<>>})

NextTextSearch ==
    \/ SummaryCreateText
    \/ SummaryDelete
    \/ ToolTextSearch
    \/ RestTextSearch

TextSearchSpec == Init /\ [][NextTextSearch]_vars

-----------------------------------------------------------------------------
(* generateRecommendation.  Its scores are numbers in hundredths. *)

\* result lists generateRecommendation is applied to: up to MaxScored long
MaxScored == 3
ScoreInputs == {0, 55, 69, 70, 71, 84, 85, 86, 100}
ScoredLists ==
    UNION {[1..n -> {[similarity_score |-> x] : x \in ScoreInputs}] : n \in 0..MaxScored}

NoHistoricalContext == "No historical context found. Treat as new topic."
StrongContext == "Strong historical context found. Reference past discussions in response."
RelevantContext == "Relevant historical context available. Consider incorporating insights."
LooselyRelated == "Some related context found but may not be directly relevant."

\* results.reduce((sum, r) => sum + r.similarity_score, 0)
RECURSIVE SumScores(_, _)
SumScores(results, i) ==
    IF i = 0 THEN 0 ELSE SumScores(results, i - 1) + results[i].similarity_score

\* variant: the boundaries belong to the lower band (> for >=)
GenerateRecommendationAbove(results) ==
    IF Len(results) = 0 THEN NoHistoricalContext
    ELSE IF SumScores(results, Len(results)) > 85 * Len(results) THEN StrongContext
    ELSE IF SumScores(results, Len(results)) > 70 * Len(results) THEN RelevantContext
    ELSE LooselyRelated

\* generateRecommendation(results): avgScore = sum / results.length, and
\* avgScore >= c is sum >= c * results.length
GenerateRecommendation(results) ==
    IF Len(results) = 0 THEN NoHistoricalContext
    ELSE IF SumScores(results, Len(results)) >= 85 * Len(results) THEN StrongContext
    ELSE IF SumScores(results, Len(results)) >= 70 * Len(results) THEN RelevantContext
    ELSE LooselyRelated

\* a call of generateRecommendation on the list `scored`
Recommend ==
    /\ recommendation = "none"
    /\ recommendation' = GenerateRecommendation(scored)
    /\ UNCHANGED scored
    /\ UNCHANGED <<ingestVars, searchVars, sseVars>>

RecommendationInit ==
    /\ InitIngest /\ InitSearch /\ InitSse
    /\ scored \in ScoredLists
    /\ recommendation = "none"

RecommendationSpec == RecommendationInit /\ [][Recommend]_vars

-----------------------------------------------------------------------------
(* ConversationService.findByConversationIds and the enrichment of a result *)

\* variant: ORDER BY created_at DESC
OrderCreatedAtDesc(rows) ==
    {o \in [1..Cardinality(rows) -> rows] :
        /\ \A i, j \in 1..Cardinality(rows) : i # j => o[i] # o[j]
        /\ \A i, j \in 1..Cardinality(rows) :
                i < j => o[i].created_at >= o[j].created_at}

\* order: [["created_at", "ASC"]]: the lists the statement may return for the
\* rows it selected (rows of one created_at come in any order)
OrderCreatedAtAsc(rows) ==
    {o \in [1..Cardinality(rows) -> rows] :
        /\ \A i, j \in 1..Cardinality(rows) : i # j => o[i] # o[j]
        /\ \A i, j \in 1..Cardinality(rows) :
                i < j => o[i].created_at <= o[j].created_at}

\* where: { conversation_id: { [Op.in]: conversationIds } }
ConversationIdIn(conversationIds) ==
    {t \in conversations :
        \E i \in 1..Len(conversationIds) : conversationIds[i] = t.conversation_id}

\* variant: a lookup that finds nothing unless every id names a stored row
FindAllOrNothing(conversationIds) ==
    IF Len(conversationIds) = 0 THEN {<<>>}
    ELSE IF \E i \in 1..Len(conversationIds) :
                \A t \in conversations : t.conversation_id # conversationIds[i]
    THEN {<<>>}
    ELSE OrderCreatedAtAsc(ConversationIdIn(conversationIds))

\* ConversationService.findByConversationIds: the lists it may return
FindByConversationIds(conversationIds) ==
    IF Len(conversationIds) = 0 THEN {<<>>}
    ELSE OrderCreatedAtAsc(ConversationIdIn(conversationIds))

\* conversations.map((c) => ({ id, conversationId, role, content, createdAt }))
TurnAttributes(c) ==
    [id |-> c.id, conversationId |-> c.conversation_id, role |-> c.role,
     content |-> c.content, createdAt |-> c.created_at]

\* result.conversations of the result made of `row`: [] unless
\* includeConversations and the row has conversation ids
ResultConversations(include, row) ==
    IF include /\ Len(row.conversation_ids) > 0
    THEN {[j \in 1..Len(o) |-> TurnAttributes(o[j])] :
            o \in FindByConversationIds(row.conversation_ids)}
    ELSE {<<>>}

\* the `conversations` of enrichedResults, one list per result
EnrichedResults(include, rows) ==
    {e \in [1..Len(rows) ->
                UNION {ResultConversations(include, rows[i]) : i \in 1..Len(rows)}] :
        \A i \in 1..Len(rows) : e[i] \in ResultConversations(include, rows[i])}

-----------------------------------------------------------------------------
(* The caller-facing entry points of semantic search *)

Min(a, b) == IF a < b THEN a ELSE b
Max(a, b) == IF a > b THEN a ELSE b

\* a similarity score in hundredths, rounded down
RECURSIVE FloorHundredths(_, _, _)
FloorHundredths(s, lo, hi) ==
    IF lo = hi THEN lo
    ELSE LET mid == (lo + hi + 1) \div 2
         IN IF SimLE(AsSim(mid), s) THEN FloorHundredths(s, mid, hi)
            ELSE FloorHundredths(s, lo, mid - 1)

Hundredths(s) == FloorHundredths(s, -100, 100)

SuggestLower == "Try lowering the similarity threshold for broader results"
SuggestNewTopic == "This may be a new topic with no historical context"

\* the `suggestion` of a response: only the tool's, when nothing was found
\* (similarityThreshold > 0.5 is on the value the caller gave)
Suggestion(entry, in, rows) ==
    IF entry = "tool" /\ Len(rows) = 0
    THEN (IF in.threshold > 50 THEN SuggestLower ELSE SuggestNewTopic)
    ELSE "none"

\* the `recommendation` of a response: only the tool's, when something was found
Recommendation(entry, rows) ==
    IF entry = "tool" /\ Len(rows) > 0
    THEN GenerateRecommendation(
            [i \in DOMAIN rows |-> [similarity_score |-> Hundredths(rows[i].similarity_score)]])
    ELSE "none"

\* a call that returned before the service was called
Rejected(entry, in) ==
    [entry |-> entry, query |-> in.vec, given |-> in.given,
     limit |-> in.limit, threshold |-> in.threshold,
     accessed |-> FALSE, success |-> FALSE, results |-> <<>>,
     suggestion |-> "none", recommendation |-> "none",
     include |-> FALSE, conversations |-> <<>>]

\* variant: the error of the statement is answered as a success without results
Swallowed(entry, in, limit, t) ==
    [entry |-> entry, query |-> in.vec, given |-> in.given,
     limit |-> limit, threshold |-> t,
     accessed |-> TRUE, success |-> TRUE, results |-> <<>>,
     suggestion |-> "none", recommendation |-> "none",
     include |-> FALSE, conversations |-> <<>>]

\* a call of semanticSearch(q, limit, t) whose statement raised an error
Failed(entry, in, limit, t) ==
    [entry |-> entry, query |-> in.vec, given |-> in.given,
     limit |-> limit, threshold |-> t,
     accessed |-> TRUE, success |-> FALSE, results |-> <<>>,
     suggestion |-> "none", recommendation |-> "none",
     include |-> FALSE, conversations |-> <<>>]

\* a call of semanticSearch(q, limit, t) that returned `rows`, answered with
\* the enrichment `found` (the REST route has no enrichment)
Returned(entry, in, limit, t, rows, include, found) ==
    [entry |-> entry, query |-> in.vec, given |-> in.given,
     limit |-> limit, threshold |-> t,
     accessed |-> TRUE, success |-> TRUE, results |-> rows,
     suggestion |-> Suggestion(entry, in, rows),
     recommendation |-> Recommendation(entry, rows),
     include |-> include, conversations |-> found]

\* Between two writes the model follows one call, and one repetition of it:
\* a second call by the same entry point that reaches the store with the same
\* query vector and limit (the store is the same: a write replaces last)
\* a response of one of the two search entry points
Searches(call) == call.entry \in {"tool", "rest"}

First == ~Searches(last)

Repeats(entry, q, limit) ==
    /\ last # NoCall /\ prev = NoCall
    /\ last.entry = entry /\ last.accessed
    /\ last.query = q /\ last.limit = limit

Remember(call) ==
    /\ last' = call
    /\ prev' = IF Searches(last) THEN last ELSE NoCall

\* await conversationSummaryService.semanticSearch(q, limit, t) inside try/catch
CallSemanticSearch(entry, in, limit, t, include) ==
    /\ First \/ Repeats(entry, in.vec, limit)
    /\ IF SearchError(in.vec, limit) # "none"
       THEN Remember(Failed(entry, in, limit, t))
       ELSE \E rows \in SemanticSearch(in.vec, limit, t) :
               \E found \in EnrichedResults(include, rows) :
                   Remember(Returned(entry, in, limit, t, rows, include, found))

\* searchConversationSummaries.handler, its arguments drawn from `inputs` and
\* includeConversations from `includes`
ToolSearchOf(inputs, includes) ==
    /\ \E in \in inputs, message \in {"", "I feel anxious"}, include \in includes :
        /\ message = "" => in.vec = UnitFirst /\ in.limit = 2 /\ in.threshold = 70
        /\ IF message = "" THEN First /\ Remember(Rejected("tool", in))
           ELSE IF ~in.given \/ Len(in.vec) = 0
           THEN First /\ Remember(Rejected("tool", in))
           ELSE IF Len(in.vec) # EmbeddingDim
           THEN First /\ Remember(Rejected("tool", in))
           ELSE CallSemanticSearch("tool", in,
                                   Min(Max(1, in.limit), MaxToolLimit),
                                   Min(Max(0, in.threshold), 100), include)
    /\ UNCHANGED <<summaries, nextSummaryPk, clock>>
    /\ UNCHANGED <<ingestVars, pureVars, sseVars>>

\* the tool called with includeConversations false (its default)
ToolSearch == ToolSearchOf(SearchInputs, {FALSE})

\* router.post("/semantic-search") -> searchByText -> semanticSearch
RestSearch ==
    /\ \E in \in SearchInputs :
        IF ~in.given THEN First /\ Remember(Rejected("rest", in))
        ELSE CallSemanticSearch("rest", in, in.limit, in.threshold, FALSE)
    /\ UNCHANGED <<summaries, nextSummaryPk, clock>>
    /\ UNCHANGED <<ingestVars, pureVars, sseVars>>

\* (an update of an embedding leads to no ids, embeddings and created_at that
\* create and delete do not lead to: NextEmbedding has the updates)
NextSearch ==
    \/ SummaryCreate
    \/ SummaryDelete
    \/ ToolSearch
    \/ RestSearch

SearchSpec == Init /\ [][NextSearch]_vars

-----------------------------------------------------------------------------
(* The routes of /api/conversations and /api/sessions that write Turns and   *)
(* delete Sessions, and the enriched search.  Each of these handlers has one *)
(* statement, or reads only: it is one action.                               *)

\* conversation_id values a caller sends, and a Summary refers to
ExternalIds == {1, 2}

\* bodies of POST /api/conversations: the well-formed ones, and one body per
\* validation branch and per error of the INSERT (user 9 is no row of users)
TurnBodies ==
    {[content |-> "hi", user_id |-> 7, session_id |-> k, conversation_id |-> i,
      role |-> "user"] : k \in SessionKeys, i \in ExternalIds}
    \cup {[content |-> "hi", user_id |-> 7, session_id |-> "abc",
           conversation_id |-> 0, role |-> "user"],
          [content |-> "hi", user_id |-> 7, session_id |-> "abc",
           conversation_id |-> 1, role |-> "robot"],
          [content |-> "hi", user_id |-> 9, session_id |-> "abc",
           conversation_id |-> 1, role |-> "user"]}

\* `conversations` arrays of POST /api/conversations/batch
TurnBatches ==
    {<<>>}
    \cup {<<[content |-> "hi", user_id |-> 7, session_id |-> "abc",
             conversation_id |-> i, role |-> "user"],
            [content |-> "hi", user_id |-> 7, session_id |-> k,
             conversation_id |-> 2, role |-> r]>> :
            i \in ExternalIds, k \in SessionKeys, r \in {"user", "robot"}}

\* the response of a route that writes Turns or deletes a Session, on the
\* store as the route left it; `turns` is the number of rows of conversations
\* its statement inserted or removed
Replied(entry, key, status, turns) ==
    /\ last' = [entry |-> entry, key |-> key, status |-> status, turns |-> turns]
    /\ prev' = NoCall

\* the required-field check of a conversation body
TurnBodyComplete(b) ==
    /\ b.content # "" /\ b.user_id # 0 /\ b.session_id # ""
    /\ b.conversation_id # 0 /\ b.role # ""

\* router.post("/") of /api/conversations, its body drawn from `bodies`
ConversationsPostOf(bodies) ==
    /\ \E b \in bodies :
        IF ~TurnBodyComplete(b) \/ ~RoleInEnum(b.role)
        THEN /\ Replied("conversations.post", b.session_id, 400, 0)
             /\ UNCHANGED <<conversations, nextConvPk, clock>>
        ELSE IF ConversationInsertError(<<b>>) # "none"
        THEN /\ Replied("conversations.post", b.session_id, 500, 0)
             /\ UNCHANGED <<conversations, nextConvPk, clock>>
        ELSE /\ nextConvPk <= MaxTurns
             /\ conversations' = conversations \cup ConversationRows(<<b>>)
             /\ nextConvPk' = nextConvPk + 1
             /\ clock' = clock + 1
             /\ Replied("conversations.post", b.session_id, 201, 1)
    /\ UNCHANGED <<sessions, nextSessionPk, nextUuid, pc, req, session, resp, nreq>>
    /\ UNCHANGED <<summaries, nextSummaryPk, pureVars, sseVars>>

ConversationsPost == ConversationsPostOf(TurnBodies)

\* router.post("/batch") of /api/conversations
ConversationsBatchPost ==
    /\ \E datas \in TurnBatches :
        IF Len(datas) = 0
           \/ \E i \in 1..Len(datas) :
                ~TurnBodyComplete(datas[i]) \/ ~RoleInEnum(datas[i].role)
        THEN /\ Replied("conversations.batch", "", 400, 0)
             /\ UNCHANGED <<conversations, nextConvPk, clock>>
        ELSE IF ConversationInsertError(datas) # "none"
        THEN /\ Replied("conversations.batch", "", 500, 0)
             /\ UNCHANGED <<conversations, nextConvPk, clock>>
        ELSE /\ nextConvPk + Len(datas) - 1 <= MaxTurns
             /\ conversations' = conversations \cup ConversationRows(datas)
             /\ nextConvPk' = nextConvPk + Len(datas)
             /\ clock' = clock + 1
             /\ Replied("conversations.batch", "", 201, Len(datas))
    /\ UNCHANGED <<sessions, nextSessionPk, nextUuid, pc, req, session, resp, nreq>>
    /\ UNCHANGED <<summaries, nextSummaryPk, pureVars, sseVars>>

\* router.delete("/:id") of /api/conversations -> ConversationService.delete
ConversationsDelete ==
    /\ \E isNaN \in BOOLEAN, id \in 1..MaxTurns :
        /\ isNaN => id = 1
        /\ IF isNaN
           THEN /\ Replied("conversations.delete", "", 400, 0)
                /\ UNCHANGED conversations
           ELSE /\ conversations' = {t \in conversations : t.id # id}
                /\ IF \E t \in conversations : t.id = id
                   THEN Replied("conversations.delete", "", 200, 1)
                   ELSE Replied("conversations.delete", "", 404, 0)
    /\ UNCHANGED <<sessions, nextSessionPk, nextConvPk, nextUuid,
                   pc, req, session, resp, nreq>>
    /\ UNCHANGED <<summaries, nextSummaryPk, clock, pureVars, sseVars>>

\* the rows of conversations with the session key `key`
TurnsOf(key) == {t \in conversations : t.session_id = key}

\* router.delete("/:id") of /api/sessions -> SessionService.delete
SessionsDelete ==
    /\ \E isNaN \in BOOLEAN, id \in 1..(nextSessionPk - 1) :
        /\ isNaN => id = 1
        /\ IF isNaN
           THEN /\ Replied("sessions.delete", "", 400, 0)
                /\ UNCHANGED <<sessions, conversations>>
           ELSE IF \E s \in sessions : s.id = id
           THEN LET key == (CHOOSE s \in sessions : s.id = id).session_id
                IN /\ sessions' = {s \in sessions : s.id # id}
                   /\ conversations' = OnDeleteCascade(key)
                   /\ Replied("sessions.delete", key, 200,
                              Cardinality(TurnsOf(key)))
           ELSE /\ Replied("sessions.delete", "", 404, 0)
                /\ UNCHANGED <<sessions, conversations>>
    /\ UNCHANGED <<nextSessionPk, nextConvPk, nextUuid, pc, req, session, resp, nreq>>
    /\ UNCHANGED <<summaries, nextSummaryPk, clock, pureVars, sseVars>>

\* router.delete("/by-session-id/:sessionId") -> SessionService.deleteBySessionId
SessionsDeleteBySessionId ==
    /\ \E key \in SessionKeys :
        IF SessionExists(key)
        THEN /\ sessions' = {s \in sessions : s.session_id # key}
             /\ conversations' = OnDeleteCascade(key)
             /\ Replied("sessions.deleteBySessionId", key, 200,
                        Cardinality(TurnsOf(key)))
        ELSE /\ Replied("sessions.deleteBySessionId", key, 404, 0)
             /\ UNCHANGED <<sessions, conversations>>
    /\ UNCHANGED <<nextSessionPk, nextConvPk, nextUuid, pc, req, session, resp, nreq>>
    /\ UNCHANGED <<summaries, nextSummaryPk, clock, pureVars, sseVars>>

\* POST /api/summaries with and without conversation_ids
SummaryCreateRefs ==
    /\ nextSummaryPk <= MaxReferring
    /\ SummaryCreateOf({PlainText}, {<<>>, <<1, 2>>}, {UnitFirst})

\* arguments of the enriched search: one well-formed call
EnrichedInputs ==
    {[given |-> TRUE, vec |-> UnitFirst, limit |-> 2, threshold |-> 70]}

\* the tool called with and without includeConversations
ToolSearchEnriched == ToolSearchOf(EnrichedInputs, BOOLEAN)

\* the one client of DELETE /api/chat/session/:sessionId
ChatClient == "c1"

\* the store with the two Sessions of user 7 (two POST /api/sessions)
TwoSessionsInit ==
    /\ InitSearch /\ InitPure /\ InitSse
    /\ sessions = {[id |-> 1, session_id |-> "abc", user_id |-> 7, title |-> "chat"],
                   [id |-> 2, session_id |-> "xyz", user_id |-> 7, title |-> "chat"]}
    /\ nextSessionPk = 3
    /\ conversations = {}
    /\ nextConvPk = 1
    /\ nextUuid = 0
    /\ pc = [c \in Clients |-> "idle"]
    /\ req = [c \in Clients |-> NoReq]
    /\ session = [c \in Clients |-> NoSession]
    /\ resp = [c \in Clients |-> NoResp]
    /\ nreq = 0

NextEnriched ==
    \/ ConversationsPost
    \/ ConversationsBatchPost
    \/ ConversationsDelete
    \/ SessionsDeleteBySessionId
    \/ SummaryCreateRefs
    \/ ToolSearchEnriched

EnrichedSpec == TwoSessionsInit /\ [][NextEnriched]_vars

\* bodies of POST /api/conversations in the runs that delete Sessions
CascadeBodies ==
    {b \in TurnBodies : b.conversation_id \in {0, 1}}

ConversationsPostCascade == ConversationsPostOf(CascadeBodies)

NextCascade ==
    \/ ConversationsPostCascade
    \/ SessionsDelete
    \/ SessionsDeleteBySessionId
    \/ ChatDeleteBegin(ChatClient)
    \/ ChatDeleteSession(ChatClient)
    \/ SummaryCreateRefs

CascadeSpec == TwoSessionsInit /\ [][NextCascade]_vars

-----------------------------------------------------------------------------
(* Turn creation by the chat routes and by POST /api/conversations against   *)
(* the deletion of Sessions: one client records Turns, another one deletes   *)
(* Sessions, and Turns are created directly.                                 *)

\* the client of POST /api/chat/message and /messages/batch
Recorder == "c1"
\* the client of DELETE /api/chat/session/:sessionId
Deleter == "c2"

\* bodies of the direct POST /api/conversations: one per session key
DirectBodies ==
    {b \in TurnBodies : b.conversation_id = 1 /\ b.role = "user" /\ b.user_id = 7}

ConversationsPostDirect == ConversationsPostOf(DirectBodies)

NextOrphan ==
    \/ ChatMessageBegin(Recorder)
    \/ ChatMessageFind(Recorder)
    \/ ChatMessageCreateSession(Recorder)
    \/ ChatMessageCreate(Recorder)
    \/ ChatBatchBegin(Recorder)
    \/ ChatBatchFind(Recorder)
    \/ ChatBatchCreateSession(Recorder)
    \/ ChatBatchCreate(Recorder)
    \/ ChatDeleteBegin(Deleter)
    \/ ChatDeleteSession(Deleter)
    \/ ConversationsPostDirect

OrphanSpec == Init /\ [][NextOrphan]_vars

-----------------------------------------------------------------------------
(* The embedding statistics: GET /api/conversation-summaries/stats/embeddings *)
(* and the tool get-conversation-summary-stats.  Each handler runs two       *)
(* counting statements, and other handlers may write between the two.        *)

\* the client of the statistics
StatsClient == "c1"

\* ConversationSummaryService.count
Count == Cardinality(summaries)

\* ConversationSummaryService.countWithEmbeddings:
\* SELECT COUNT(*) ... WHERE summary_embedding IS NOT NULL
CountWithEmbeddings == Cardinality({s \in summaries : s.embedding # NoEmbedding})

\* the first statement of a statistics handler: the tool counts all Summaries
\* first, the route counts the embedded ones first
StatsBegin(c) ==
    /\ Idle(c)
    /\ \E entry \in {"stats.tool", "stats.rest"} :
        Accept(c, [op |-> entry,
                   first |-> IF entry = "stats.tool" THEN Count
                             ELSE CountWithEmbeddings])
    /\ pc' = [pc EXCEPT ![c] = "stats_second"]
    /\ resp' = [resp EXCEPT ![c] = NoResp]
    /\ UNCHANGED <<sessions, conversations, nextSessionPk, nextConvPk, nextUuid>>
    /\ UNCHANGED <<searchVars, pureVars, sseVars>>

\* the second statement, and the response built from the two counts
StatsFinish(c) ==
    /\ pc[c] = "stats_second"
    /\ resp' = [resp EXCEPT ![c] =
                    IF req[c].op = "stats.tool"
                    THEN [status |-> 200, error |-> "none", total |-> req[c].first,
                          withEmbeddings |-> CountWithEmbeddings]
                    ELSE [status |-> 200, error |-> "none", total |-> Count,
                          withEmbeddings |-> req[c].first]]
    /\ pc' = [pc EXCEPT ![c] = "done"]
    /\ UNCHANGED <<sessions, conversations, nextSessionPk, nextConvPk, nextUuid,
                   req, session, nreq>>
    /\ UNCHANGED <<searchVars, pureVars, sseVars>>

\* POST /api/summaries with and without an embedding
SummaryCreateEmbedded == SummaryCreateOf({PlainText}, {<<>>}, {UnitFirst, NoEmbedding})

\* PUT /api/summaries/:id/embedding with a vector of the dimension
SummarySetEmbedding == SummaryUpdateEmbeddingOf({UnitFirst})

NextCoverage ==
    \/ StatsBegin(StatsClient)
    \/ StatsFinish(StatsClient)
    \/ SummaryCreateEmbedded
    \/ SummarySetEmbedding
    \/ SummaryDelete

CoverageSpec == Init /\ [][NextCoverage]_vars

-----------------------------------------------------------------------------
(* startServer: the SSE endpoint, its registry of transports, and           *)
(* POST /messages/:clientId.  A transport is named by the number of its      *)
(* connection; a client id is the Date.now() it is made of.                  *)

\* transports.get(clientId): the transport of the entry, 0 when there is none
TransportOf(clientId) ==
    IF \E e \in transports : e.clientId = clientId
    THEN (CHOOSE e \in transports : e.clientId = clientId).transport
    ELSE 0

\* transports.set(clientId, transport): the entry of the key is replaced
MapSet(clientId, transport) ==
    {e \in transports : e.clientId # clientId}
        \cup {[clientId |-> clientId, transport |-> transport]}

\* transports.delete(clientId)
MapDelete(clientId) == {e \in transports : e.clientId # clientId}

\* a millisecond passes
Tick ==
    /\ now < MaxNow
    /\ now' = now + 1
    /\ UNCHANGED <<transports, open, nextConn, answer>>
    /\ UNCHANGED <<ingestVars, searchVars, pureVars>>

\* app.get("/sse") up to its await: clientId = `client-${Date.now()}`,
\* new SSEServerTransport, transports.set(clientId, transport)
SseOpen ==
    /\ nextConn <= MaxConns
    /\ transports' = MapSet(now, nextConn)
    /\ open' = open \cup {[conn |-> nextConn, clientId |-> now, listening |-> FALSE]}
    /\ nextConn' = nextConn + 1
    /\ UNCHANGED <<now, answer>>
    /\ UNCHANGED <<ingestVars, searchVars, pureVars>>

\* app.get("/sse") after await server.connect(transport): res.on("close", ...)
SseConnected ==
    /\ \E c \in open :
        /\ ~c.listening
        /\ open' = (open \ {c}) \cup {[c EXCEPT !.listening = TRUE]}
    /\ UNCHANGED <<transports, nextConn, now, answer>>
    /\ UNCHANGED <<ingestVars, searchVars, pureVars>>

\* the response of a connection closes: the "close" listener, when it is
\* registered, runs transports.delete(clientId)
SseClose ==
    /\ \E c \in open :
        /\ open' = open \ {c}
        /\ transports' = IF c.listening THEN MapDelete(c.clientId) ELSE transports
    /\ UNCHANGED <<nextConn, now, answer>>
    /\ UNCHANGED <<ingestVars, searchVars, pureVars>>

\* app.post("/messages/:clientId")
PostMessage ==
    /\ \E clientId \in 0..MaxNow :
        answer' = [clientId |-> clientId,
                   status |-> IF TransportOf(clientId) = 0 THEN 404 ELSE 202,
                   transport |-> TransportOf(clientId)]
    /\ UNCHANGED <<transports, open, nextConn, now>>
    /\ UNCHANGED <<ingestVars, searchVars, pureVars>>

NextSse ==
    \/ Tick
    \/ SseOpen
    \/ SseConnected
    \/ SseClose
    \/ PostMessage

SseSpec == Init /\ [][NextSse]_vars

-----------------------------------------------------------------------------
(* PUT /api/conversations/:id -> ConversationService.update *)

\* a body without fields ("" and 0 stand for a field that is not sent)
NoFields ==
    [content |-> "", role |-> "", session_id |-> "", user_id |-> 0,
     conversation_id |-> 0, id |-> 0, created_at |-> 0]

\* bodies of PUT /api/conversations/:id: req.body is passed on as it is
UpdateBodies ==
    {[NoFields EXCEPT !.content = "bye", !.role = "assistant"],
     [NoFields EXCEPT !.role = "robot"],
     [NoFields EXCEPT !.session_id = "xyz"],
     [NoFields EXCEPT !.session_id = "gone"],
     [NoFields EXCEPT !.user_id = 8],
     [NoFields EXCEPT !.conversation_id = 2],
     [NoFields EXCEPT !.id = 9, !.created_at = 9]}

\* the row of conversations with the id, NoFields when there is none
TurnById(id) ==
    IF \E t \in conversations : t.id = id
    THEN CHOOSE t \in conversations : t.id = id
    ELSE NoFields

\* conversation.update(data): every attribute of the model that the body holds
\* is set, but the primary key and the read-only created_at
Updated(row, data) ==
    [id |-> row.id,
     conversation_id |-> IF data.conversation_id # 0 THEN data.conversation_id
                         ELSE row.conversation_id,
     session_id |-> IF data.session_id # "" THEN data.session_id ELSE row.session_id,
     user_id |-> IF data.user_id # 0 THEN data.user_id ELSE row.user_id,
     role |-> IF data.role # "" THEN data.role ELSE row.role,
     content |-> IF data.content # "" THEN data.content ELSE row.content,
     created_at |-> row.created_at]

\* the response of the update route, with the row as it was before
RepliedUpdate(id, data, status) ==
    /\ last' = [entry |-> "conversations.put", id |-> id, data |-> data,
                status |-> status, before |-> TurnById(id)]
    /\ prev' = NoCall

\* router.put("/:id") of /api/conversations
ConversationsPut ==
    /\ \E id \in 1..MaxTurns, data \in UpdateBodies :
        IF data.role # "" /\ ~RoleInEnum(data.role)
        THEN /\ RepliedUpdate(id, data, 400)
             /\ UNCHANGED conversations
        ELSE IF TurnById(id) = NoFields
        THEN /\ RepliedUpdate(id, data, 404)
             /\ UNCHANGED conversations
        ELSE IF ConversationInsertError(<<Updated(TurnById(id), data)>>) # "none"
        THEN /\ RepliedUpdate(id, data, 500)
             /\ UNCHANGED conversations
        ELSE /\ conversations' =
                    (conversations \ {TurnById(id)})
                        \cup {Updated(TurnById(id), data)}
             /\ RepliedUpdate(id, data, 200)
    /\ UNCHANGED <<sessions, nextSessionPk, nextConvPk, nextUuid,
                   pc, req, session, resp, nreq>>
    /\ UNCHANGED <<summaries, nextSummaryPk, clock, pureVars, sseVars>>

NextTurnUpdate ==
    \/ ConversationsPost
    \/ ConversationsPut

TurnUpdateSpec == TwoSessionsInit /\ [][NextTurnUpdate]_vars

-----------------------------------------------------------------------------
(* GET /api/chat/history/:sessionId -> ConversationService.findBySessionId *)

\* limit and offset of the query string: parseInt(...) || 100 and || 0
HistoryPages == {[limit |-> 100, offset |-> 0], [limit |-> 1, offset |-> 1]}

\* the list from the element after the first `n` ones on (OFFSET n)
Offset(o, n) == IF n >= Len(o) THEN <<>> ELSE SubSeq(o, n + 1, Len(o))

\* ConversationService.findBySessionId: the lists the SELECT may return
\* (where session_id, order created_at ASC, limit, offset)
FindConversationsBySessionId(sessionId, limit, offset) ==
    {Take(Offset(o, offset), limit) : o \in OrderCreatedAtAsc(TurnsOf(sessionId))}

\* conversations.map((c) => ({ id, conversation_id, content, role, created_at }))
HistoryMessage(c) ==
    [id |-> c.id, conversation_id |-> c.conversation_id, content |-> c.content,
     role |-> c.role, created_at |-> c.created_at]

\* a response of the history route
Retrieval(call) == call.entry = "history"

\* router.get("/history/:sessionId"): the response is kept in `last`, and the
\* retrieval of the same session before it in `prev` (the session info, the
\* second read of the handler, is not part of the messages)
ChatHistory ==
    /\ \E key \in SessionKeys, page \in HistoryPages :
        \E rows \in FindConversationsBySessionId(key, page.limit, page.offset) :
            /\ last' = [entry |-> "history", key |-> key,
                        limit |-> page.limit, offset |-> page.offset,
                        messages |-> [i \in 1..Len(rows) |-> HistoryMessage(rows[i])]]
            /\ prev' = IF Retrieval(last) /\ last.key = key THEN last ELSE NoCall
    /\ UNCHANGED <<summaries, nextSummaryPk, clock>>
    /\ UNCHANGED <<ingestVars, pureVars, sseVars>>

NextHistory ==
    \/ ChatMessageBegin(Recorder)
    \/ ChatMessageFind(Recorder)
    \/ ChatMessageCreateSession(Recorder)
    \/ ChatMessageCreate(Recorder)
    \/ ChatBatchBegin(Recorder)
    \/ ChatBatchFind(Recorder)
    \/ ChatBatchCreateSession(Recorder)
    \/ ChatBatchCreate(Recorder)
    \/ ChatHistory

HistorySpec == Init /\ [][NextHistory]_vars

-----------------------------------------------------------------------------
(* Claims about the ingestion path, checked under Spec *)

SessionsOf(key) == {s \in sessions : s.session_id = key}

TurnStored(c) ==
    \E t \in conversations :
        /\ t.conversation_id = req[c].conversation_id
        /\ t.session_id = req[c].session_id

\* Two POST /api/chat/message calls, the only requests issued, both well-formed
\* and for the same session key, have both finished
TwoRecordTurnsFinished(c, d) ==
    /\ c # d
    /\ nreq = 2
    /\ pc[c] = "done" /\ pc[d] = "done"
    /\ req[c].op = "message" /\ req[d].op = "message"
    /\ resp[c].status # 400 /\ resp[d].status # 400
    /\ req[c].session_id = req[d].session_id

\* C1: when two concurrent recordTurn calls for the same, not yet existing
\* session key have both finished, exactly one Session row for the key exists
\* and the Turns of both calls are stored under it, for every interleaving.
C1_BothTurnsUnderOneSession ==
    \A c, d \in Clients :
        TwoRecordTurnsFinished(c, d) =>
            /\ Cardinality(SessionsOf(req[c].session_id)) = 1
            /\ TurnStored(c)
            /\ TurnStored(d)

\* C2: a uniqueness conflict on Session creation is never reported to the
\* caller of recordTurn / recordTurnsBatch as a failure.
C2_ConflictNeverReported ==
    \A c \in Clients :
        req[c].op \in {"message", "batch"} =>
            resp[c].error # "SequelizeUniqueConstraintError"

\* C3: in every reachable state at most one Session row exists for any
\* external session key.
C3_SessionKeyUnique ==
    \A s, t \in sessions : s.session_id = t.session_id => s = t

\* a create of an already existing key was attempted and rejected, the key's
\* row is in the table
C3_Witness ==
    \E c \in Clients :
        /\ resp[c].error = "SequelizeUniqueConstraintError"
        /\ Cardinality(SessionsOf(req[c].session_id)) = 1

-----------------------------------------------------------------------------
(* Claims about semanticSearch, checked under SearchSpec.  A search in `last` *)
(* is a call on the store as it is: every write replaces it.                 *)

\* the latest call reached semanticSearch and got a result list back
Answered == Searches(last) /\ last.accessed /\ last.success

\* cosine similarity of e and q is at least t hundredths
CosAtLeast(e, q, t) ==
    LET d == Dot(e, q)
        n == Dot(e, e) * Dot(q, q)
    IN IF t <= 0 THEN d >= 0 \/ d * d * 10000 <= t * t * n
       ELSE d > 0 /\ d * d * 10000 >= t * t * n

\* the Summaries that have an embedding and clear the threshold of `call`
Qualifying(call) ==
    {s \in summaries :
        /\ s.embedding # NoEmbedding
        /\ CosAtLeast(s.embedding, call.query, call.threshold)}

ResultIds(call) == {call.results[i].id : i \in DOMAIN call.results}

\* C4: semanticSearch returns only Summaries that have an embedding and whose
\* cosine similarity to the query is at least the threshold, and when fewer
\* than `limit` Summaries qualify every qualifying Summary is returned.
C4_OnlyAtLeastThreshold ==
    Answered =>
        /\ ResultIds(last) \subseteq {s.id : s \in Qualifying(last)}
        /\ Cardinality(Qualifying(last)) < last.limit =>
                {s.id : s \in Qualifying(last)} \subseteq ResultIds(last)

\* a search that returned something while the store held a Summary without
\* embedding and an embedded one below the threshold, fewer than limit qualifying
C4_Witness ==
    /\ Answered
    /\ last.results # <<>>
    /\ Cardinality(Qualifying(last)) < last.limit
    /\ \E s \in summaries : s.embedding = NoEmbedding
    /\ \E s \in summaries : s.embedding # NoEmbedding /\ s \notin Qualifying(last)

\* C5: the list semanticSearch returns is sorted non-increasing by similarity
\* score.
C5_SortedByScore ==
    Answered =>
        \A i, j \in DOMAIN last.results :
            i < j => SimLE(last.results[j].similarity_score,
                           last.results[i].similarity_score)

\* a result of two or more entries whose scores differ
C5_Witness ==
    /\ Answered
    /\ Len(last.results) >= 2
    /\ ~SimLE(last.results[1].similarity_score,
              last.results[Len(last.results)].similarity_score)

\* C6: of two Summaries of equal similarity score in a result, the one with
\* the more recent created_at comes first.
C6_TiesMostRecentFirst ==
    Answered =>
        \A i, j \in DOMAIN last.results :
            (/\ i < j
             /\ SimLE(last.results[i].similarity_score, last.results[j].similarity_score)
             /\ SimLE(last.results[j].similarity_score, last.results[i].similarity_score))
            => last.results[i].created_at > last.results[j].created_at

\* C7: semanticSearch returns at most `limit` results, and no Summary left out
\* has a strictly higher score than a Summary that is returned.
C7_TopLimit ==
    Answered =>
        /\ Len(last.results) <= last.limit
        /\ \A s \in Qualifying(last) :
                s.id \notin ResultIds(last) =>
                    \A i \in DOMAIN last.results :
                        SimLE(Similarity(s.embedding, last.query),
                              last.results[i].similarity_score)

\* more Summaries than `limit` clear the threshold, `limit` are returned and
\* one that is left out scores strictly lower than the first result
C7_Witness ==
    /\ Answered
    /\ last.limit >= 1
    /\ Cardinality(Qualifying(last)) > last.limit
    /\ Len(last.results) = last.limit
    /\ \E s \in Qualifying(last) :
        /\ s.id \notin ResultIds(last)
        /\ ~SimLE(last.results[1].similarity_score,
                  Similarity(s.embedding, last.query))

\* the latest two calls passed the same query vector and limit to
\* semanticSearch on the same store, and both got a result list back
Repeated == Answered /\ Searches(prev) /\ prev.success

\* C8: two calls of semanticSearch with the same query, limit and threshold on
\* an unchanged store return the same Summaries in the same order.
C8_SameArgumentsSameResult ==
    (Repeated /\ prev.threshold = last.threshold) => prev.results = last.results

\* C9: for a fixed store, query and limit, raising the threshold never
\* increases the number of results.
C9_ThresholdMonotone ==
    Repeated =>
        /\ prev.threshold <= last.threshold => Len(last.results) <= Len(prev.results)
        /\ last.threshold <= prev.threshold => Len(prev.results) <= Len(last.results)

\* the second of two calls used a higher threshold and got fewer results
C9_Witness ==
    /\ Repeated
    /\ prev.threshold < last.threshold
    /\ Len(last.results) < Len(prev.results)
    /\ last.results # <<>>

\* C10: a search whose query vector is missing, empty or not of the configured
\* dimension is rejected with an error before any store access, on both
\* entry points.
C10_BadQueryRejectedBeforeStore ==
    (Searches(last) /\ (~last.given \/ Len(last.query) # EmbeddingDim)) =>
        ~last.accessed /\ ~last.success

\* the latest call reached semanticSearch (whether or not the statement failed)
Searched == Searches(last) /\ last.accessed

\* C11: every call of semanticSearch made for a caller uses a threshold within
\* [0.0, 1.0] and a limit within [1, 20] whatever the caller supplied, so no
\* response carries more than 20 results.
C11_ClampedArguments ==
    Searched =>
        /\ 0 <= last.threshold /\ last.threshold <= 100
        /\ 1 <= last.limit /\ last.limit <= MaxToolLimit
        /\ Len(last.results) <= MaxToolLimit

\* C12: a semantic search in which nothing clears the threshold returns an
\* empty list together with the "no historical context, treat as new topic"
\* recommendation, for every threshold value, whether the store held no embedded
\* Summary or only Summaries below the threshold.
C12_EmptyResultNoHistoricalContext ==
    (Answered /\ last.entry = "tool" /\ last.results = <<>>) =>
        \/ last.recommendation = NoHistoricalContext
        \/ last.suggestion = SuggestNewTopic

-----------------------------------------------------------------------------
(* Claims about generateRecommendation, checked under RecommendationSpec *)

RECURSIVE TotalScore(_)
TotalScore(results) ==
    IF results = <<>> THEN 0
    ELSE Head(results).similarity_score + TotalScore(Tail(results))

-----------------------------------------------------------------------------
(* Claims about the embedding of a Summary, checked under EmbeddingSpec *)

\* C18: setEmbedding(summaryId, vector) with a vector whose length is not the
\* configured dimension fails with an error and leaves the store unchanged: the
\* Summary keeps its embedding (or none) and its updated_at.
C18_SetEmbeddingWrongDimension ==
    (last.entry = "setEmbedding" /\ Len(last.vector) # EmbeddingDim) =>
        /\ last.status >= 400
        /\ SummaryById(last.id) = last.before

\* a vector of a wrong, non-zero length was sent for a Summary that has an
\* embedding, and the database rejected it
C18_Witness ==
    /\ last.entry = "setEmbedding"
    /\ Len(last.vector) \notin {0, EmbeddingDim}
    /\ last.status = 500
    /\ \E row \in last.before : row.embedding # NoEmbedding /\ row.updated_at > row.created_at

\* C19: in every reachable state every Summary that has an embedding has one of
\* exactly the configured dimension, after any sequence of summary create,
\* summary update and setEmbedding with vectors of any length.
C19_EmbeddingDimension ==
    \A s \in summaries :
        s.embedding # NoEmbedding => Len(s.embedding) = EmbeddingDim

\* a summary update carrying a vector of a wrong length was rejected, on a
\* store with an embedded Summary
C19_Witness ==
    /\ last.entry \in {"create", "update"}
    /\ Len(last.vector) \notin {0, EmbeddingDim}
    /\ last.status = 500
    /\ \E s \in summaries : s.embedding # NoEmbedding

-----------------------------------------------------------------------------
(* Claims about the keyword search, checked under TextSearchSpec *)

\* the text contains the query as a substring, letter case apart
ContainsIgnoreCase(text, query) ==
    \E i \in 0..(Len(text) - Len(query)) :
        \A j \in 1..Len(query) : Lower(text[i + j]) = Lower(query[j])

\* the latest call was a keyword search that returned a list
TextAnswered == last.entry \in {"tool_text", "rest_text"} /\ last.success

\* the Summaries whose text contains the query of `call`
Containing(call) ==
    {s \in summaries : ContainsIgnoreCase(s.summary_text, call.query)}

\* C17: keywordSearch(query, limit) returns exactly the Summaries whose
\* summary_text contains the query as a case-insensitive substring, ordered by
\* created_at descending and cut to at most `limit` entries, without a
\* similarity score on any entry.
C17_KeywordSearch ==
    TextAnswered =>
        /\ ResultIds(last) \subseteq {s.id : s \in Containing(last)}
        /\ Len(last.results) = Min(last.limit, Cardinality(Containing(last)))
        /\ \A i, j \in DOMAIN last.results :
                i < j => last.results[i].created_at >= last.results[j].created_at
        /\ \A s \in Containing(last) :
                s.id \notin ResultIds(last) =>
                    \A i \in DOMAIN last.results : s.created_at <= last.results[i].created_at
        /\ \A i \in DOMAIN last.results :
                "similarity_score" \notin DOMAIN last.results[i]

-----------------------------------------------------------------------------
(* Claims about the enriched search, checked under EnrichedSpec.  The search *)
(* in `last` read the store as it is: every write replaces it.               *)

\* a call of the tool that reached the store
ToolAnswered == Searches(last) /\ last.entry = "tool" /\ last.accessed

\* the conversation ids of the i-th result of the call
ReferencedIds(i) == last.results[i].conversation_ids

\* the turn id names a row of conversations
Stored(id) == \E t \in conversations : t.conversation_id = id

\* the i-th result of the call carries a Turn of the turn id
Carries(i, id) ==
    \E j \in 1..Len(last.conversations[i]) :
        last.conversations[i][j].conversationId = id

\* C15: an enriched search (includeConversations true) that meets a referenced
\* turn id naming no stored Turn still succeeds; each result carries a Turn of
\* a referenced id exactly when the id names a stored Turn
C15_MissingTurnSkipped ==
    ToolAnswered /\ last.include =>
        /\ last.success
        /\ Len(last.conversations) = Len(last.results)
        /\ \A i \in 1..Len(last.results) :
            \A k \in 1..Len(ReferencedIds(i)) :
                Carries(i, ReferencedIds(i)[k]) <=> Stored(ReferencedIds(i)[k])

\* an enriched search answered a result of which one referenced id names no
\* stored Turn and another one does, with the Turn of the latter
C15_Witness ==
    /\ ToolAnswered /\ last.include /\ last.success
    /\ \E i \in 1..Len(last.results) :
        /\ \E k \in 1..Len(ReferencedIds(i)) : ~Stored(ReferencedIds(i)[k])
        /\ \E k \in 1..Len(ReferencedIds(i)) :
            Stored(ReferencedIds(i)[k]) /\ Carries(i, ReferencedIds(i)[k])

\* the stored Turns the i-th result of the call refers to, as the tool shows them
ReferencedTurns(i) ==
    {TurnAttributes(t) : t \in ConversationIdIn(ReferencedIds(i))}

\* C16: the Turns of each result of a successful tool search are exactly the
\* stored Turns whose conversation_id is among the Summary's conversation_ids,
\* each once, by created_at ascending; without includeConversations every
\* result has an empty list
C16_EnrichedTurns ==
    ToolAnswered /\ last.success =>
        /\ Len(last.conversations) = Len(last.results)
        /\ \A i \in 1..Len(last.results) :
            LET found == last.conversations[i]
            IN IF last.include
               THEN /\ {found[j] : j \in 1..Len(found)} = ReferencedTurns(i)
                    /\ Len(found) = Cardinality(ReferencedTurns(i))
                    /\ \A j, k \in 1..Len(found) :
                        j < k => found[j].createdAt <= found[k].createdAt
               ELSE found = <<>>

\* an enriched search answered a result with two Turns created at two times
C16_Witness ==
    /\ ToolAnswered /\ last.success /\ last.include
    /\ \E i \in 1..Len(last.results) :
        /\ Len(last.conversations[i]) = 2
        /\ last.conversations[i][1].createdAt < last.conversations[i][2].createdAt

-----------------------------------------------------------------------------
(* Claims about the deletion of a Session, checked under CascadeSpec *)

\* C20: a step that deletes the Session of a key (by DELETE
\* /api/chat/session/:sessionId, by id or by key) leaves no Turn with that key
\* in conversations and leaves conversations_summary as it was, conversation_ids
\* included
C20_SessionDeleteCascades ==
    [][\A key \in SessionKeys :
        SessionExists(key) /\ (\A s \in sessions' : s.session_id # key) =>
            /\ \A t \in conversations' : t.session_id # key
            /\ summaries' = summaries]_vars

\* a Session deletion by id or by key was answered 200, it removed Turns, and a
\* Summary still refers to a turn id that now names no stored Turn
C20_Witness ==
    /\ last.entry \in {"sessions.delete", "sessions.deleteBySessionId"}
    /\ last.status = 200 /\ last.turns > 0
    /\ \A t \in conversations : t.session_id # last.key
    /\ \E s \in summaries :
        \E k \in 1..Len(s.conversation_ids) : ~Stored(s.conversation_ids[k])

-----------------------------------------------------------------------------
(* Claims about the Turns of the store *)

\* C21: every stored Turn's session_id names a row of sessions, in every state
\* of every interleaving of the chat routes, the direct POST /api/conversations
\* and the deletion of Sessions (checked under OrphanSpec)
C21_NoOrphanTurns ==
    \A t \in conversations : SessionExists(t.session_id)

\* the INSERT of a recorded Turn was rejected by the foreign key on session_id:
\* its Session was deleted after the handler had found or created it
C21_Witness ==
    /\ req[Recorder].op \in {"message", "batch"}
    /\ resp[Recorder].status = 500
    /\ resp[Recorder].error = "SequelizeForeignKeyConstraintError"
    /\ UserExists(req[Recorder].user_id)
    /\ ~SessionExists(req[Recorder].session_id)

\* the stored Turns of the batch request the client is running or has run
\* (its uuids are drawn when the handler maps the messages)
BatchTurns(c) ==
    {t \in conversations :
        /\ req[c].conversation_id # 0
        /\ t.conversation_id >= req[c].conversation_id
        /\ t.conversation_id < req[c].conversation_id + Len(req[c].messages)}

\* C22: in every state, of the Turns of a batch request either all are stored
\* or none is, and none is once the request was answered as a failure
\* (checked under Spec)
C22_BatchAllOrNothing ==
    \A c \in Clients :
        req[c].op = "batch" =>
            /\ Cardinality(BatchTurns(c)) \in {0, Len(req[c].messages)}
            /\ resp[c].status \notin {0, 201} => BatchTurns(c) = {}

\* a batch of two messages, the second one with a role the table rejects, was
\* answered 500 after its INSERT
C22_Witness ==
    \E c \in Clients :
        /\ req[c].op = "batch" /\ req[c].conversation_id # 0
        /\ Len(req[c].messages) = 2
        /\ RoleInEnum(req[c].messages[1].role)
        /\ ~RoleInEnum(req[c].messages[2].role)
        /\ resp[c].status = 500
        /\ BatchTurns(c) = {}

\* the position of the Turn of the id in the messages of a retrieval, 0 if
\* it is not among them
Position(call, id) ==
    IF \E i \in 1..Len(call.messages) : call.messages[i].id = id
    THEN CHOOSE i \in 1..Len(call.messages) : call.messages[i].id = id
    ELSE 0

\* C23: a retrieval of the Turns of a session lists them in the order they were
\* recorded (ids are given in the order of creation, and in the order of the
\* message list within a batch), and two retrievals of one session list the
\* Turns they share in one order (checked under HistorySpec)
C23_RetrievalOrder ==
    Retrieval(last) =>
        /\ \A i, j \in 1..Len(last.messages) :
                i < j => last.messages[i].id < last.messages[j].id
        /\ Retrieval(prev) =>
                \A i, j \in 1..Len(last.messages) :
                    (/\ i < j
                     /\ Position(prev, last.messages[i].id) # 0
                     /\ Position(prev, last.messages[j].id) # 0)
                    => Position(prev, last.messages[i].id)
                            < Position(prev, last.messages[j].id)

\* C24: no two stored Turns have one conversation_id, after any sequence of
\* POST /api/conversations and its batch form, where the caller supplies
\* conversation_id (checked under EnrichedSpec)
C24_ExternalTurnIdUnique ==
    \A t, u \in conversations : t.conversation_id = u.conversation_id => t = u

\* C25: after an update of a Turn was answered 200, the Turn has the id,
\* conversation_id, session_id, user_id and created_at it had before, whatever
\* the body held (checked under TurnUpdateSpec)
C25_TurnUpdateFrame ==
    last.entry = "conversations.put" /\ last.status = 200 =>
        /\ TurnById(last.id).id = last.before.id
        /\ TurnById(last.id).conversation_id = last.before.conversation_id
        /\ TurnById(last.id).session_id = last.before.session_id
        /\ TurnById(last.id).user_id = last.before.user_id
        /\ TurnById(last.id).created_at = last.before.created_at

-----------------------------------------------------------------------------
(* Claims about recordTurn (POST /api/chat/message), checked under           *)
(* OrphanSpec, where the recorder is the one client of the chat post routes  *)

\* the step is the validation of a request of the recorder
RecorderBegins ==
    /\ nreq' # nreq
    /\ pc'[Deleter] = pc[Deleter]

\* the step takes the recorder from one position of recordTurn to another
RecorderMoves(from, to) ==
    /\ pc[Recorder] = from
    /\ pc'[Recorder] = to

\* the store of Sessions and Turns is left as it is
SameStore ==
    /\ sessions' = sessions
    /\ conversations' = conversations

-----------------------------------------------------------------------------
(* Claims about the embedding statistics, checked under CoverageSpec *)

\* C27: every response of the embedding statistics has
\* 0 <= withEmbeddings <= total, also when Summaries are written between the
\* two counting statements
C27_CoverageWithinTotal ==
    \A c \in Clients :
        req[c].op \in {"stats.tool", "stats.rest"} /\ resp[c].status = 200 =>
            /\ 0 <= resp[c].withEmbeddings
            /\ resp[c].withEmbeddings <= resp[c].total

-----------------------------------------------------------------------------
(* Claims about recordTurnsBatch and the owner of a Turn, checked under Spec *)

\* C28: a batch request answered as a failure leaves the store unchanged, with
\* no Session of its making: when it is the first request of a run, the store
\* is still empty
C28_FailedBatchLeavesNothing ==
    \A c \in Clients :
        (/\ nreq = 1
         /\ req[c].op = "batch"
         /\ resp[c].status \notin {0, 201})
        => sessions = {} /\ conversations = {}

\* C29: the user_id of every stored Turn is the user_id of the Session of its
\* session_id
C29_TurnOwnerIsSessionOwner ==
    \A t \in conversations :
        \A s \in sessions : s.session_id = t.session_id => s.user_id = t.user_id

-----------------------------------------------------------------------------
(* Claims about the registry of SSE transports, checked under SseSpec *)

\* C30: the registry maps the client id of every open SSE connection to the
\* transport of that connection, whatever other connections are opened and
\* closed, and a POST to /messages/:clientId is answered 404 exactly when the
\* id has no entry
C30_RegistryKeepsOpenConnections ==
    /\ \A c \in open : TransportOf(c.clientId) = c.conn
    /\ answer.status # 0 => (answer.status = 404 <=> answer.transport = 0)

=============================================================================
